---- MODULE Spec2Model ----
(***************************************************************************)
(* Contact book of src/assistant_bot.py: the field validators (Phone,      *)
(* Birthday), Record, AddressBook (with the upcoming-birthdays query and   *)
(* pickle persistence) and the AddressBookController command loop.         *)
(*                                                                         *)
(* Strings whose characters matter (phones, birthdays, formatted dates)    *)
(* are sequences of one-character strings; names, e-mails and command      *)
(* words are atoms.  A message is the sequence of the pieces an f-string   *)
(* concatenates.                                                           *)
(***************************************************************************)
EXTENDS Integers, Sequences, FiniteSets, TLC

VARIABLES
    pc,      \* "start" (before load), "idle" (at the prompt), "returned" (an
             \* operation has returned), "exited", "crashed" (an exception escaped)
    book,    \* AddressBook.data: insertion-ordered <<[key, rec]>>
    disk,    \* the file addressbook.pkl
    last,    \* the last operation: its name, arguments, outcome and view calls
    raw,     \* a raw phone string, as typed so far
    inserts  \* number of characters inserted into raw

vars == <<pc, book, disk, last, raw, inserts>>

-----------------------------------------------------------------------------
(* Characters *)

DigitChars == <<"0", "1", "2", "3", "4", "5", "6", "7", "8", "9">>

Digits == {DigitChars[i] : i \in 1..Len(DigitChars)}

DigitVal(c) == (CHOOSE i \in 1..Len(DigitChars) : DigitChars[i] = c) - 1

\* str.isdigit(): non-empty and every character a digit
IsDigitStr(s) == Len(s) > 0 /\ \A i \in 1..Len(s) : s[i] \in Digits

\* str.replace(ch, ""): every occurrence of ch removed
StrRemove(s, ch) == SelectSeq(s, LAMBDA c : c # ch)

\* int() of a digit string
RECURSIVE ParseInt(_)
ParseInt(s) ==
    IF Len(s) = 0 THEN 0
    ELSE 10 * ParseInt(SubSeq(s, 1, Len(s) - 1)) + DigitVal(s[Len(s)])

-----------------------------------------------------------------------------
(* Outcomes: a returned value, or a raised exception with its message *)

Ok(v) == [exc |-> "none", msg |-> <<>>, value |-> v]

Raise(e, m) == [exc |-> e, msg |-> m, value |-> <<>>]

PhoneErrMsg == <<"Phone number must contain 10-12 digits (with optional '+' prefix).">>

DateErrMsg == <<"Invalid date format. Use DD.MM.YYYY">>

OldPhoneErrMsg == <<"Old phone number not found.">>

-----------------------------------------------------------------------------
(* Phone *)

PhoneLengthsMutant == {10, 11, 12}

PhoneLengths == {10, 12}

Phone(value) ==
    LET cleaned == StrRemove(StrRemove(StrRemove(value, "+"), "-"), " ")
    IN  IF ~IsDigitStr(cleaned) \/ Len(cleaned) \notin PhoneLengths
        THEN Raise("ValueError", PhoneErrMsg)
        ELSE Ok(cleaned)

-----------------------------------------------------------------------------
(* Calendar: datetime.date as the standard library computes it *)

IsLeap(y) == y % 4 = 0 /\ (y % 100 # 0 \/ y % 400 = 0)

DaysInMonth(y, m) ==
    IF m = 2 THEN (IF IsLeap(y) THEN 29 ELSE 28)
    ELSE IF m \in {4, 6, 9, 11} THEN 30 ELSE 31

DaysBeforeYear(y) ==
    (y - 1) * 365 + ((y - 1) \div 4) - ((y - 1) \div 100) + ((y - 1) \div 400)

RECURSIVE DaysBeforeMonth(_, _)
DaysBeforeMonth(y, m) ==
    IF m = 1 THEN 0 ELSE DaysBeforeMonth(y, m - 1) + DaysInMonth(y, m - 1)

Date(y, m, d) == [year |-> y, month |-> m, day |-> d]

IsValidDate(y, m, d) ==
    y >= 1 /\ m \in 1..12 /\ d >= 1 /\ d <= DaysInMonth(y, m)

ToOrdinal(dt) == DaysBeforeYear(dt.year) + DaysBeforeMonth(dt.year, dt.month) + dt.day

FromOrdinal(n) ==
    LET y == CHOOSE yy \in (n \div 366)..(n \div 365 + 1) :
                 DaysBeforeYear(yy) < n /\ n <= DaysBeforeYear(yy + 1)
        r == n - DaysBeforeYear(y)
        m == CHOOSE mm \in 1..12 :
                 DaysBeforeMonth(y, mm) < r /\ r <= DaysBeforeMonth(y, mm) + DaysInMonth(y, mm)
    IN  Date(y, m, r - DaysBeforeMonth(y, m))

\* date.weekday(): 0 = Monday .. 6 = Sunday
Weekday(dt) == (ToOrdinal(dt) + 6) % 7

\* date + timedelta(days=k)
AddDays(dt, k) == FromOrdinal(ToOrdinal(dt) + k)

\* date.replace(year=y): ValueError when the day does not exist in that year
ReplaceYear(dt, y) ==
    IF IsValidDate(y, dt.month, dt.day)
    THEN Ok(Date(y, dt.month, dt.day))
    ELSE Raise("ValueError", <<"day is out of range for month">>)

\* the directive %d: 3[0-1] | [1-2]\d | 0[1-9] | [1-9] | " "[1-9]
MatchesDay(s) ==
    \/ Len(s) = 2 /\ s[1] = "3" /\ s[2] \in {"0", "1"}
    \/ Len(s) = 2 /\ s[1] \in {"1", "2"} /\ s[2] \in Digits
    \/ Len(s) = 2 /\ s[1] \in {"0", " "} /\ s[2] \in Digits \ {"0"}
    \/ Len(s) = 1 /\ s[1] \in Digits \ {"0"}

\* the directive %m: 1[0-2] | 0[1-9] | [1-9]
MatchesMonth(s) ==
    \/ Len(s) = 2 /\ s[1] = "1" /\ s[2] \in {"0", "1", "2"}
    \/ Len(s) = 2 /\ s[1] = "0" /\ s[2] \in Digits \ {"0"}
    \/ Len(s) = 1 /\ s[1] \in Digits \ {"0"}

\* datetime.strptime(value, "%d.%m.%Y").date()
Strptime(value) ==
    LET dots == {i \in 1..Len(value) : value[i] = "."}
        Min(S) == CHOOSE i \in S : \A j \in S : i <= j
        bad == Raise("ValueError", <<"time data does not match format">>)
    IN  IF Cardinality(dots) < 2 THEN bad
        ELSE
          LET i1 == Min(dots)
              i2 == Min(dots \ {i1})
              dpart == SubSeq(value, 1, i1 - 1)
              mpart == SubSeq(value, i1 + 1, i2 - 1)
              ypart == SubSeq(value, i2 + 1, i2 + 4)
          IN  IF ~MatchesDay(dpart) \/ ~MatchesMonth(mpart)
                 \/ Len(value) < i2 + 4 \/ ~IsDigitStr(ypart)
              THEN bad
              ELSE IF Len(value) > i2 + 4
              THEN Raise("ValueError", <<"unconverted data remains">>)
              ELSE
                LET d == ParseInt(SelectSeq(dpart, LAMBDA c : c # " "))
                    m == ParseInt(mpart)
                    y == ParseInt(ypart)
                IN  IF IsValidDate(y, m, d) THEN Ok(Date(y, m, d))
                    ELSE Raise("ValueError", <<"day is out of range for month">>)

TwoDigits(n) == <<DigitChars[((n \div 10) % 10) + 1], DigitChars[(n % 10) + 1]>>

\* date.strftime("%d.%m.%Y")
Strftime(dt) ==
    TwoDigits(dt.day) \o <<".">> \o TwoDigits(dt.month) \o <<".">>
        \o TwoDigits(dt.year \div 100) \o TwoDigits(dt.year % 100)

-----------------------------------------------------------------------------
(* Birthday *)

Birthday(value) ==
    IF Strptime(value).exc = "none" THEN Ok(value)
    ELSE Raise("ValueError", DateErrMsg)

-----------------------------------------------------------------------------
(* Record *)

\* None, for Record.birthday and for the phone argument left out
None == <<>>

\* what a method leaves behind: its outcome and the object after the call
Done(out, self) ==
    [exc |-> out.exc, msg |-> out.msg, value |-> out.value, self |-> self]

add_phone(rec, phone) ==
    LET p == Phone(phone)
    IN  IF p.exc # "none" THEN Done(p, rec)
        ELSE Done(Ok(None), [rec EXCEPT !.phones = Append(@, p.value)])

RecordInit(name, phone, email) ==
    LET fresh == [name |-> name, phones |-> <<>>, email |-> "", birthday |-> None]
        added == IF phone # None THEN add_phone(fresh, phone) ELSE Done(Ok(None), fresh)
    IN  IF added.exc # "none" THEN added
        ELSE Done(Ok(None), [added.self EXCEPT !.email = email])

remove_phone(rec, phone) ==
    Done(Ok(None), [rec EXCEPT !.phones = SelectSeq(@, LAMBDA p : p # phone)])

\* index of the first phone equal to phone, 0 when there is none
FirstPhone(rec, phone) ==
    IF \E i \in 1..Len(rec.phones) : rec.phones[i] = phone
    THEN CHOOSE i \in 1..Len(rec.phones) :
             /\ rec.phones[i] = phone
             /\ \A j \in 1..(i - 1) : rec.phones[j] # phone
    ELSE 0

edit_phone_every_match(rec, old_phone, new_phone) ==
    LET p == Phone(new_phone)
    IN  IF FirstPhone(rec, old_phone) = 0
        THEN Done(Raise("ValueError", OldPhoneErrMsg), rec)
        ELSE IF p.exc # "none" THEN Done(p, rec)
        ELSE Done(Ok(<<"Phone updated.">>),
                  [rec EXCEPT !.phones =
                      [k \in 1..Len(rec.phones) |->
                          IF rec.phones[k] = old_phone THEN p.value ELSE rec.phones[k]]])

edit_phone_validate_first(rec, old_phone, new_phone) ==
    LET p == Phone(new_phone)
        i == FirstPhone(rec, old_phone)
    IN  IF p.exc # "none" THEN Done(p, rec)
        ELSE IF i = 0 THEN Done(Raise("ValueError", OldPhoneErrMsg), rec)
        ELSE Done(Ok(<<"Phone updated.">>), [rec EXCEPT !.phones[i] = p.value])

edit_phone(rec, old_phone, new_phone) ==
    LET i == FirstPhone(rec, old_phone)
    IN  IF i = 0 THEN Done(Raise("ValueError", OldPhoneErrMsg), rec)
        ELSE LET p == Phone(new_phone)
             IN  IF p.exc # "none" THEN Done(p, rec)
                 ELSE Done(Ok(<<"Phone updated.">>), [rec EXCEPT !.phones[i] = p.value])

\* the Phone found (its position in the list), or None (0)
find_phone(rec, phone) == FirstPhone(rec, phone)

add_birthday(rec, birthday) ==
    LET b == Birthday(birthday)
    IN  IF b.exc # "none" THEN Done(b, rec)
        ELSE Done(Ok(None), [rec EXCEPT !.birthday = b.value])

-----------------------------------------------------------------------------
(* AddressBook: data is the dict, in insertion order *)

\* position of the key in the dict, 0 when it is absent
KeyIndex(data, key) ==
    IF \E i \in 1..Len(data) : data[i].key = key
    THEN CHOOSE i \in 1..Len(data) : data[i].key = key
    ELSE 0

add_record_append(data, record) == Append(data, [key |-> record.name, rec |-> record])

add_record(data, record) ==
    LET i == KeyIndex(data, record.name)
    IN  IF i = 0 THEN Append(data, [key |-> record.name, rec |-> record])
        ELSE [data EXCEPT ![i] = [key |-> record.name, rec |-> record]]

\* the position of the Record found, or None (0)
find(data, name) == KeyIndex(data, name)

delete(data, name) == SelectSeq(data, LAMBDA e : e.key # name)

DateLess(a, b) ==
    \/ a.year < b.year
    \/ a.year = b.year /\ a.month < b.month
    \/ a.year = b.year /\ a.month = b.month /\ a.day < b.day

InWindow(days) == 0 <= days /\ days <= 7

RollForwardMutant(d) ==
    IF Weekday(d) >= 5 THEN AddDays(d, 6 - Weekday(d)) ELSE d

RollForward(d) ==
    IF Weekday(d) >= 5 THEN AddDays(d, 7 - Weekday(d)) ELSE d

RECURSIVE UpcomingLoop(_, _, _, _)
UpcomingLoop(data, today, i, upcoming) ==
    IF i > Len(data) THEN Ok(upcoming)
    ELSE
      LET rec == data[i].rec
      IN  IF rec.birthday = None THEN UpcomingLoop(data, today, i + 1, upcoming)
          ELSE
            LET bday_date == Strptime(rec.birthday)
                this_year == IF bday_date.exc # "none" THEN bday_date
                             ELSE ReplaceYear(bday_date.value, today.year)
                next == IF this_year.exc = "none" /\ DateLess(this_year.value, today)
                        THEN ReplaceYear(this_year.value, today.year + 1)
                        ELSE this_year
            IN  IF next.exc # "none" THEN next
                ELSE
                  LET days == ToOrdinal(next.value) - ToOrdinal(today)
                      entry == [name |-> rec.name,
                                birthday |-> Strftime(RollForward(next.value))]
                  IN  UpcomingLoop(data, today, i + 1,
                          IF InWindow(days) THEN Append(upcoming, entry) ELSE upcoming)

get_upcoming_birthdays(data, today) == UpcomingLoop(data, today, 1, <<>>)

-----------------------------------------------------------------------------
(* Persistence: pickle.dump / pickle.load of AddressBook.data *)

Missing == [kind |-> "missing", items |-> <<>>]

\* pickle.dump(self.data, fh): the dict's items, each Record's fields flattened
Pickle(data) ==
    [kind |-> "pickle",
     items |-> [i \in 1..Len(data) |->
                  <<data[i].key, data[i].rec.name, data[i].rec.phones,
                    data[i].rec.email, data[i].rec.birthday>>]]

save(data) == Pickle(data)

\* pickle.load(fh): what reading each kind of file content can do
Unpickle(content) ==
    CASE content.kind = "pickle" ->
           {Ok([i \in 1..Len(content.items) |->
                   [key |-> content.items[i][1],
                    rec |-> [name |-> content.items[i][2],
                             phones |-> content.items[i][3],
                             email |-> content.items[i][4],
                             birthday |-> content.items[i][5]]]])}
      [] content.kind = "empty" ->
           {Raise("EOFError", <<"Ran out of input">>)}
      [] content.kind = "truncated" ->
           {Raise("UnpicklingError", <<"pickle data was truncated">>),
            Raise("EOFError", <<"Ran out of input">>)}
      [] content.kind = "garbage" ->
           {Raise("UnpicklingError", <<"invalid load key">>),
            Raise("ValueError", <<"could not convert string to int">>),
            Raise("EOFError", <<"Ran out of input">>)}

\* the exceptions AddressBook.load catches
LoadCaught == {"FileNotFoundError", "PickleError", "UnpicklingError", "PicklingError"}

\* AddressBook.load: the outcomes, each with self.data after the call
load(data, content) ==
    LET read == IF content.kind = "missing"
                THEN {Raise("FileNotFoundError", <<"No such file or directory">>)}
                ELSE Unpickle(content)
    IN  {IF out.exc = "none" THEN Done(Ok(None), out.value)
         ELSE IF out.exc \in LoadCaught THEN Done(Ok(None), <<>>)
         ELSE Done(out, data) : out \in read}

-----------------------------------------------------------------------------
(* AddressBookController: each handler gives its outcome, the book after it *)
(* and the calls it made on the view                                        *)

Handled(out, data, shown) ==
    [exc |-> out.exc, msg |-> out.msg, value |-> out.value, caught |-> "none",
     data |-> data, shown |-> shown]

ShowMessage(text) == [method |-> "show_message", text |-> text]

\* the decorator: an exception becomes the returned string
input_error(h) ==
    IF h.exc = "none" THEN h
    ELSE [h EXCEPT !.exc = "none", !.msg = <<>>, !.caught = h.exc,
                   !.value = CASE h.exc = "ValueError" -> h.msg
                               [] h.exc = "IndexError" -> <<"Please provide all necessary arguments.">>
                               [] h.exc = "KeyError" -> <<"Contact not found.">>
                               [] OTHER -> <<"An unexpected error occurred: ">> \o h.msg]

SetRec(data, i, rec) == [data EXCEPT ![i].rec = rec]

cmd_hello(data, args) ==
    Handled(Ok(None), data, <<ShowMessage(<<"How can I help you?">>)>>)

cmd_add_email_first(data, args) ==
    IF Len(args) < 2
    THEN input_error(Handled(Raise("ValueError", <<"Usage: add <name> <phone> [email]">>), data, <<>>))
    ELSE
      LET name == args[1]
          phone == args[2]
          email == IF Len(args) > 2 THEN args[3] ELSE ""
          i == find(data, name)
      IN  IF i = 0
          THEN LET r == RecordInit(name, phone, email)
               IN  IF r.exc # "none"
                   THEN input_error(Handled(r, add_record(data, [r.self EXCEPT !.email = email]), <<>>))
                   ELSE Handled(Ok(None), add_record(data, r.self),
                                <<ShowMessage(<<"Contact added.">>)>>)
          ELSE LET withmail == IF email # "" THEN [data[i].rec EXCEPT !.email = email]
                               ELSE data[i].rec
                   r == add_phone(withmail, phone)
               IN  IF r.exc # "none" THEN input_error(Handled(r, SetRec(data, i, withmail), <<>>))
                   ELSE Handled(Ok(None), SetRec(data, i, r.self),
                                <<ShowMessage(<<"Contact updated.">>)>>)

cmd_add(data, args) ==
    IF Len(args) < 2
    THEN input_error(Handled(Raise("ValueError", <<"Usage: add <name> <phone> [email]">>), data, <<>>))
    ELSE
      LET name == args[1]
          phone == args[2]
          email == IF Len(args) > 2 THEN args[3] ELSE ""
          i == find(data, name)
      IN  IF i = 0
          THEN LET r == RecordInit(name, phone, email)
               IN  IF r.exc # "none" THEN input_error(Handled(r, data, <<>>))
                   ELSE Handled(Ok(None), add_record(data, r.self),
                                <<ShowMessage(<<"Contact added.">>)>>)
          ELSE LET r == add_phone(data[i].rec, phone)
               IN  IF r.exc # "none" THEN input_error(Handled(r, data, <<>>))
                   ELSE Handled(Ok(None),
                                SetRec(data, i, IF email # "" THEN [r.self EXCEPT !.email = email]
                                                ELSE r.self),
                                <<ShowMessage(<<"Contact updated.">>)>>)

NotFound(name) == Raise("ValueError", <<"Contact ", name, " not found.">>)

cmd_change(data, args) ==
    IF Len(args) # 3
    THEN input_error(Handled(Raise("ValueError", <<"Usage: change <name> <old_phone> <new_phone>">>), data, <<>>))
    ELSE
      LET name == args[1]
          i == find(data, name)
      IN  IF i # 0
          THEN LET r == edit_phone(data[i].rec, args[2], args[3])
               IN  IF r.exc # "none" THEN input_error(Handled(r, data, <<>>))
                   ELSE Handled(Ok(None), SetRec(data, i, r.self), <<ShowMessage(r.value)>>)
          ELSE input_error(Handled(NotFound(name), data, <<>>))

cmd_phone(data, args) ==
    IF Len(args) # 1
    THEN input_error(Handled(Raise("ValueError", <<"Usage: phone <name>">>), data, <<>>))
    ELSE
      LET name == args[1]
          i == find(data, name)
      IN  IF i # 0 /\ Len(data[i].rec.phones) > 0
          THEN Handled(Ok(None), data, <<ShowMessage(<<name, ": ", data[i].rec.phones>>)>>)
          ELSE input_error(Handled(Raise("ValueError", <<"No phone found for ", name, ".">>), data, <<>>))

cmd_all(data, args) ==
    Handled(Ok(None), data,
            <<[method |-> "display_contacts", text |-> [i \in 1..Len(data) |-> data[i].rec]]>>)

cmd_add_birthday(data, args) ==
    IF Len(args) # 2
    THEN input_error(Handled(Raise("ValueError", <<"Usage: add-birthday <name> <DD.MM.YYYY>">>), data, <<>>))
    ELSE
      LET name == args[1]
          i == find(data, name)
      IN  IF i # 0
          THEN LET r == add_birthday(data[i].rec, args[2])
               IN  IF r.exc # "none" THEN input_error(Handled(r, data, <<>>))
                   ELSE Handled(Ok(None), SetRec(data, i, r.self),
                                <<ShowMessage(<<"Birthday added.">>)>>)
          ELSE input_error(Handled(NotFound(name), data, <<>>))

cmd_show_birthday(data, args) ==
    IF Len(args) # 1
    THEN input_error(Handled(Raise("ValueError", <<"Usage: show-birthday <name>">>), data, <<>>))
    ELSE
      LET name == args[1]
          i == find(data, name)
      IN  IF i # 0 /\ data[i].rec.birthday # None
          THEN Handled(Ok(None), data,
                       <<ShowMessage(<<name, "'s birthday is ", data[i].rec.birthday>>)>>)
          ELSE input_error(Handled(Raise("ValueError", <<"No birthday found for ", name, ".">>), data, <<>>))

cmd_birthdays(data, today) ==
    LET upcoming == get_upcoming_birthdays(data, today)
    IN  IF upcoming.exc # "none" THEN Handled(upcoming, data, <<>>)
        ELSE IF upcoming.value = <<>>
        THEN Handled(Ok(None), data, <<ShowMessage(<<"No upcoming birthdays in the next week.">>)>>)
        ELSE Handled(Ok(None), data,
                     <<ShowMessage([i \in 1..Len(upcoming.value) |->
                          <<upcoming.value[i].name, ": ", upcoming.value[i].birthday>>])>>)

\* export_to_csv writes contacts.csv, which no operation reads back
cmd_export(data, args) ==
    Handled(Ok(None), data, <<ShowMessage(<<"Contacts exported to contacts.csv">>)>>)

cmd_help(data, args) ==
    Handled(Ok(None), data, <<[method |-> "display_help", text |-> <<>>]>>)

cmd_exit(data, args) ==
    Handled(Ok(None), data, <<ShowMessage(<<"Data saved. Bye!">>)>>)

\* str.lower() of the command words the sessions type
Lower(word) ==
    CASE word = "HELLO" -> "hello"
      [] word = "Exit" -> "exit"
      [] OTHER -> word

\* parse_input: the line is given as its whitespace-separated parts
parse_input(parts) ==
    IF Len(parts) = 0 THEN <<"", <<>>>>
    ELSE <<Lower(parts[1]), SubSeq(parts, 2, Len(parts))>>

\* self.commands: the handler of each command word
commands ==
    ("hello" :> "cmd_hello") @@ ("add" :> "cmd_add") @@ ("change" :> "cmd_change")
        @@ ("phone" :> "cmd_phone") @@ ("all" :> "cmd_all")
        @@ ("add-birthday" :> "cmd_add_birthday")
        @@ ("show-birthday" :> "cmd_show_birthday")
        @@ ("birthdays" :> "cmd_birthdays") @@ ("export" :> "cmd_export")
        @@ ("help" :> "cmd_help") @@ ("exit" :> "cmd_exit") @@ ("close" :> "cmd_exit")

\* run() calls the handler and drops what it returns
run_handler(h) == h

-----------------------------------------------------------------------------
(* Bounds and inputs *)

MaxPhones == 2

MaxDigits == 13

MaxInserts == 2

Names == {"ann", "bob"}

Emails == {"a@x.io"}

PhoneA == <<"1", "2", "3", "4", "5", "6", "7", "8", "9", "0">>

PhoneB == <<"+", "3", "8", "0", "-", "5", "0", "1", "2", "3", "4", "5", "6", "7">>

CanonB == <<"3", "8", "0", "5", "0", "1", "2", "3", "4", "5", "6", "7">>

PhoneBad == <<"1", "2", "3", "4", "5", "6", "7", "8", "9", "0", "1">>

Bday2902 == <<"2", "9", ".", "0", "2", ".", "2", "0", "0", "0">>

Bday1406 == <<"1", "4", ".", "0", "6", ".", "1", "9", "9", "0">>

Bday1506 == <<"1", "5", ".", "0", "6", ".", "1", "9", "9", "0">>

Bday1606 == <<"1", "6", ".", "0", "6", ".", "1", "9", "9", "0">>

Bday0101 == <<"1", ".", "1", ".", "2", "0", "0", "0">>

Bday3112 == <<"3", "1", ".", "1", "2", ".", "1", "9", "8", "0">>

Bday0103 == <<"0", "1", ".", "0", "3", ".", "2", "0", "0", "1">>

Bday2802 == <<"2", "8", ".", "0", "2", ".", "1", "9", "9", "9">>

BdayBad3102 == <<"3", "1", ".", "0", "2", ".", "2", "0", "2", "4">>

BdayBadShort == <<"1", ".", "6", ".", "9", "0">>

\* what the sessions type
PhoneInputs == {PhoneA, PhoneB, PhoneBad}

OldPhoneInputs == {PhoneA, CanonB, PhoneBad}

BirthdayInputs == {Bday2902, BdayBad3102, BdayBadShort}

CmdTodays == {Date(2024, 2, 25), Date(2023, 2, 25), Date(2024, 6, 10)}

\* the wider inputs of the birthday query
QueryBirthdays ==
    {Bday2902, Bday2802, Bday0103, Bday1406, Bday1506, Bday1606, Bday0101, Bday3112}

QueryTodays ==
    {FromOrdinal(n) : n \in ToOrdinal(Date(2023, 12, 1))..ToOrdinal(Date(2025, 3, 5))}

\* the characters typed into a raw phone string
PhoneChars == {"+", "-", " ", "a"}

DigitPattern == PhoneA \o PhoneA

-----------------------------------------------------------------------------
(* State *)

Op(op, args, caught, escaped, ret, shown, today) ==
    [op |-> op, args |-> args, caught |-> caught, escaped |-> escaped, ret |-> ret,
     shown |-> shown, today |-> today]

NoOp(op) == Op(op, <<>>, "none", "none", None, <<>>, None)

PhonesBounded(data) == \A i \in 1..Len(data) : Len(data[i].rec.phones) <= MaxPhones

Init ==
    /\ pc = "start"
    /\ book = <<>>
    /\ disk = Missing
    /\ last = NoOp("init")
    /\ raw = <<>>
    /\ inserts = 0

\* main(): model.load(), then the controller is built and run() shows the help
Load ==
    /\ pc = "start"
    /\ \E out \in load(book, disk) :
         /\ book' = out.self
         /\ pc' = IF out.exc = "none" THEN "returned" ELSE "crashed"
         /\ last' = Op("load", <<>>, "none", out.exc, None,
                       IF out.exc = "none" THEN <<[method |-> "display_help", text |-> <<>>]>>
                       ELSE <<>>, None)
    /\ UNCHANGED <<disk, raw, inserts>>

\* back at the prompt of run(), or back in the caller of a method
Return ==
    /\ pc = "returned"
    /\ pc' = "idle"
    /\ last' = NoOp("prompt")
    /\ UNCHANGED <<book, disk, raw, inserts>>

\* one turn of the loop of run(): the line read, parse_input, then the handler
\* the word names (h is what that handler does with the arguments) or the
\* unknown-command message
RunStep(parts, handler, h, today) ==
    /\ pc = "idle"
    /\ LET cmd == parse_input(parts)[1]
           args == parse_input(parts)[2]
       IN  IF cmd \in DOMAIN commands
           THEN /\ commands[cmd] = handler
                /\ book' = run_handler(h).data
                /\ PhonesBounded(book')
                /\ pc' = IF h.exc # "none" THEN "crashed"
                         ELSE IF handler = "cmd_exit" THEN "exited"
                         ELSE "returned"
                /\ disk' = IF handler = "cmd_exit" THEN save(book) ELSE disk
                /\ last' = Op(cmd, args, h.caught, h.exc, h.value, run_handler(h).shown, today)
           ELSE /\ handler = "none"
                /\ last' = Op(cmd, args, "none", "none", None,
                              IF cmd # ""
                              THEN <<ShowMessage(<<"Unknown command. Type 'help' for options.">>)>>
                              ELSE <<>>, None)
                /\ pc' = "returned"
                /\ UNCHANGED <<book, disk>>
    /\ UNCHANGED <<raw, inserts>>

\* the argument lists typed: none, one, two or three arguments
ArgLists(S1, S2, S3) ==
    {<<>>} \cup {<<a>> : a \in S1} \cup {<<a, b>> : a \in S1, b \in S2}
        \cup {<<a, b, c>> : a \in S1, b \in S2, c \in S3}

CmdHello == \E w \in {"hello", "HELLO"} : RunStep(<<w>>, "cmd_hello", cmd_hello(book, <<>>), None)

CmdAdd(names, phones, emails) ==
    \E args \in ArgLists(names, phones, emails) :
        RunStep(<<"add">> \o args, "cmd_add", cmd_add(book, args), None)

CmdChange ==
    \E args \in ArgLists(Names, OldPhoneInputs, PhoneInputs) :
        RunStep(<<"change">> \o args, "cmd_change", cmd_change(book, args), None)

CmdPhone ==
    \E args \in ArgLists(Names, {PhoneA}, {}) :
        RunStep(<<"phone">> \o args, "cmd_phone", cmd_phone(book, args), None)

CmdAll == RunStep(<<"all">>, "cmd_all", cmd_all(book, <<>>), None)

CmdAddBirthday(birthdays) ==
    \E args \in ArgLists(Names, birthdays, {PhoneA}) :
        RunStep(<<"add-birthday">> \o args, "cmd_add_birthday", cmd_add_birthday(book, args), None)

CmdShowBirthday ==
    \E args \in ArgLists(Names, {Bday2902}, {}) :
        RunStep(<<"show-birthday">> \o args, "cmd_show_birthday", cmd_show_birthday(book, args), None)

\* the handler reads the clock: today is what datetime.today() gives
CmdBirthdays ==
    \E today \in CmdTodays :
        RunStep(<<"birthdays">>, "cmd_birthdays", cmd_birthdays(book, today), today)

CmdExport == RunStep(<<"export">>, "cmd_export", cmd_export(book, <<>>), None)

CmdHelp == RunStep(<<"help">>, "cmd_help", cmd_help(book, <<>>), None)

CmdExit == \E w \in {"exit", "close", "Exit"} : RunStep(<<w>>, "cmd_exit", cmd_exit(book, <<>>), None)

CmdUnknown ==
    \E parts \in {<<>>, <<"list">>} : RunStep(parts, "none", Handled(Ok(None), book, <<>>), None)

\* the program is started again
Restart ==
    /\ pc \in {"exited", "crashed"}
    /\ pc' = "start"
    /\ book' = <<>>
    /\ last' = NoOp("main")
    /\ UNCHANGED <<disk, raw, inserts>>

\* between two sessions the snapshot is deleted, cut short or overwritten
Damage ==
    /\ pc = "exited"
    /\ \E k \in {"missing", "empty", "truncated", "garbage"} :
         /\ disk.kind # k
         /\ disk' = [kind |-> k, items |-> <<>>]
    /\ last' = NoOp("damage")
    /\ UNCHANGED <<pc, book, raw, inserts>>

(* Direct calls of the AddressBook and Record methods *)

ApiAddRecord(phones, emails) ==
    /\ pc = "idle"
    /\ \E name \in Names, phone \in phones, email \in emails :
         LET r == RecordInit(name, phone, email)
         IN  /\ r.exc = "none"
             /\ book' = add_record(book, r.self)
             /\ last' = Op("add_record", <<name, phone, email>>, "none", "none", None, <<>>, None)
    /\ pc' = "returned"
    /\ UNCHANGED <<disk, raw, inserts>>

ApiDelete ==
    /\ pc = "idle"
    /\ \E name \in Names :
         /\ book' = delete(book, name)
         /\ last' = Op("delete", <<name>>, "none", "none", None, <<>>, None)
    /\ pc' = "returned"
    /\ UNCHANGED <<disk, raw, inserts>>

ApiAddBirthday ==
    /\ pc = "idle"
    /\ \E name \in Names, bday \in QueryBirthdays :
         LET i == find(book, name)
             r == add_birthday(book[i].rec, bday)
         IN  /\ i # 0
             /\ r.exc = "none"
             /\ book' = SetRec(book, i, r.self)
             /\ last' = Op("add_birthday", <<name, bday>>, "none", "none", None, <<>>, None)
    /\ pc' = "returned"
    /\ UNCHANGED <<disk, raw, inserts>>

ApiUpcoming ==
    /\ pc = "idle"
    /\ \E today \in QueryTodays :
         LET r == get_upcoming_birthdays(book, today)
         IN  last' = Op("get_upcoming_birthdays", <<>>, "none", r.exc, r.value, <<>>, today)
    /\ pc' = "returned"
    /\ UNCHANGED <<book, disk, raw, inserts>>

(* A session of the program, with direct calls in between the commands *)

Next ==
    \/ Load
    \/ Return
    \/ CmdHello
    \/ CmdAdd(Names, PhoneInputs, Emails)
    \/ CmdChange
    \/ CmdPhone
    \/ CmdAll
    \/ CmdAddBirthday(BirthdayInputs)
    \/ CmdShowBirthday
    \/ CmdBirthdays
    \/ CmdExport
    \/ CmdHelp
    \/ CmdExit
    \/ CmdUnknown
    \/ ApiAddRecord({PhoneA, PhoneB}, {""} \cup Emails)
    \/ ApiDelete

Spec == Init /\ [][Next]_vars

(* Session after session: what exit saves, the next start loads *)

NextPersist ==
    \/ Load
    \/ Return
    \/ CmdAdd(Names, {PhoneB}, Emails)
    \/ CmdAddBirthday({Bday2902})
    \/ CmdExit
    \/ Restart
    \/ Damage

SpecPersist == Init /\ [][NextPersist]_vars

(* The birthday query on its own: books built through the methods, any day *)

InitQuery ==
    /\ pc = "idle"
    /\ book = <<>>
    /\ disk = Missing
    /\ last = NoOp("init")
    /\ raw = <<>>
    /\ inserts = 0

NextQuery ==
    \/ ApiAddRecord({None}, {""})
    \/ ApiAddBirthday
    \/ ApiDelete
    \/ ApiUpcoming
    \/ Return

SpecQuery == InitQuery /\ [][NextQuery]_vars

(* The phone validator on its own: digit strings with characters typed in *)

InitPhone ==
    /\ pc = "idle"
    /\ book = <<>>
    /\ disk = Missing
    /\ last = NoOp("init")
    /\ raw \in {SubSeq(DigitPattern, 1, n) : n \in 0..MaxDigits}
    /\ inserts = 0

InsertChar ==
    /\ inserts < MaxInserts
    /\ \E i \in 0..Len(raw), c \in PhoneChars :
         raw' = SubSeq(raw, 1, i) \o <<c>> \o SubSeq(raw, i + 1, Len(raw))
    /\ inserts' = inserts + 1
    /\ last' = NoOp("type")
    /\ UNCHANGED <<pc, book, disk>>

ValidatePhone ==
    /\ LET p == Phone(raw)
       IN  last' = Op("Phone", <<raw>>, "none", p.exc,
                      IF p.exc = "none" THEN p.value ELSE p.msg, <<>>, None)
    /\ UNCHANGED <<pc, book, disk, raw, inserts>>

NextPhone == InsertChar \/ ValidatePhone

SpecPhone == InitPhone /\ [][NextPhone]_vars

-----------------------------------------------------------------------------
(* Properties *)

Separators == {"+", "-", " "}

Count(seq, x) == Cardinality({i \in 1..Len(seq) : seq[i] = x})

ShownToUser(op) == \E i \in 1..Len(op.shown) : op.shown[i].method = "show_message"

\* 1 January 2001 was a Monday: the weekday counted from it, 0 = Monday
DayOfWeek(d) == (ToOrdinal(d) - ToOrdinal(Date(2001, 1, 1))) % 7

SameDayMonth(d, b) == d.day = b.day /\ d.month = b.month

\* the record's birthday recurs on one of the days today .. today + 7
Due(rec, today) ==
    /\ rec.birthday # None
    /\ \E k \in 0..7 : SameDayMonth(AddDays(today, k), Strptime(rec.birthday).value)

\* the first day on or after today, within the window, with the birthday's day and month
NextOccurrence(rec, today) ==
    AddDays(today, CHOOSE k \in 0..7 :
        /\ SameDayMonth(AddDays(today, k), Strptime(rec.birthday).value)
        /\ \A j \in 0..(k - 1) :
               ~SameDayMonth(AddDays(today, j), Strptime(rec.birthday).value))

DueNames(data, today) ==
    LET due == SelectSeq(data, LAMBDA e : Due(e.rec, today))
    IN  [i \in 1..Len(due) |-> due[i].rec.name]

ReturnedNames(op) == [i \in 1..Len(op.ret) |-> op.ret[i].name]

IsQuery(op) == op.op = "get_upcoming_birthdays"

\* C1: the query returns, in insertion order, exactly the records whose birthday
\* recurs within 0..7 days of today, for every book and every today
C1_UpcomingExactlyDue ==
    IsQuery(last) =>
        /\ last.escaped = "none"
        /\ ReturnedNames(last) = DueNames(book, last.today)

\* the same whenever the query returns at all
UpcomingExactlyDueWhenReturned ==
    (IsQuery(last) /\ last.escaped = "none") =>
        ReturnedNames(last) = DueNames(book, last.today)

\* the query raises exactly when a 29 February birthday has no date in the year it is moved to
UpcomingRaisesOnlyForLeapDay ==
    IsQuery(last) =>
        (last.escaped # "none" <=>
            \E i \in 1..Len(book) :
                /\ book[i].rec.birthday # None
                /\ SameDayMonth(Strptime(book[i].rec.birthday).value, Date(2000, 2, 29))
                /\ \/ ~IsLeap(last.today.year)
                   \/ DateLess(Date(last.today.year, 2, 29), last.today))

EntryRolled(entry, data, today) ==
    LET rec == data[KeyIndex(data, entry.name)].rec
        occ == NextOccurrence(rec, today)
        reported == Strptime(entry.birthday).value
    IN  /\ DayOfWeek(reported) \notin {5, 6}
        /\ reported = CASE DayOfWeek(occ) = 5 -> AddDays(occ, 2)
                        [] DayOfWeek(occ) = 6 -> AddDays(occ, 1)
                        [] OTHER -> occ

\* C2: every reported date is a weekday: a Saturday occurrence is reported two
\* days later, a Sunday one the day after, any other unchanged; the window is
\* tested on the occurrence itself and the book is left as it was
C2_WeekendRolledForward ==
    [][(IsQuery(last') /\ last'.escaped = "none") =>
          /\ book' = book
          /\ \A i \in 1..Len(last'.ret) : EntryRolled(last'.ret[i], book, last'.today)]_vars

C2_Witness ==
    /\ IsQuery(last)
    /\ last.today = Date(2024, 6, 10)
    /\ Len(last.ret) = 2
    /\ last.ret[1].birthday = <<"1", "7", ".", "0", "6", ".", "2", "0", "2", "4">>
    /\ book[KeyIndex(book, last.ret[1].name)].rec.birthday = Bday1506
    /\ last.ret[2].birthday = <<"1", "4", ".", "0", "6", ".", "2", "0", "2", "4">>

\* C3: a command that fails shows a message to the user
C3_FailureIsShown == last.caught # "none" => ShownToUser(last)

\* C4: no command but exit and close ends the session
C4_NoCommandCrashes == ~(pc = "crashed" /\ last.op \in DOMAIN commands)

IsChange(op) == op.op = "change" /\ Len(op.args) = 3

PhonesOf(data, name) == data[KeyIndex(data, name)].rec.phones

\* C5: with a valid new value, change replaces the first phone equal to the old
\* value and nothing else; with no such phone it fails and changes nothing
C5_EditPhoneReplacesFirst ==
    [][(/\ IsChange(last')
        /\ KeyIndex(book, last'.args[1]) # 0
        /\ Phone(last'.args[3]).exc = "none") =>
          LET name == last'.args[1]
              old == last'.args[2]
              new == Phone(last'.args[3]).value
              before == PhonesOf(book, name)
              after == PhonesOf(book', name)
          IN  IF Count(before, old) > 0
              THEN /\ last'.caught = "none"
                   /\ \E k \in 1..Len(before) :
                        /\ before[k] = old
                        /\ \A j \in 1..(k - 1) : before[j] # old
                        /\ after = [before EXCEPT ![k] = new]
                        /\ book' = [book EXCEPT ![KeyIndex(book, name)].rec.phones = after]
                   /\ (Count(before, old) = 1 /\ old # new) =>
                          find_phone(book'[KeyIndex(book', name)].rec, old) = 0
              ELSE /\ last'.caught = "ValueError"
                   /\ last'.ret = OldPhoneErrMsg
                   /\ book' = book]_vars

C5_Witness ==
    /\ IsChange(last)
    /\ last.caught = "none"
    /\ last.args[2] = PhoneA
    /\ KeyIndex(book, last.args[1]) # 0
    /\ PhonesOf(book, last.args[1]) = <<CanonB, PhoneA>>

InvalidNewPhone(data, op) ==
    /\ IsChange(op)
    /\ KeyIndex(data, op.args[1]) # 0
    /\ Phone(op.args[3]).exc # "none"

\* C6: with an invalid new value, change fails with the phone error whether or
\* not a phone equals the old value, and changes nothing
C6_InvalidNewPhoneReportedFirst ==
    [][InvalidNewPhone(book, last') =>
          /\ last'.caught = "ValueError"
          /\ last'.ret = PhoneErrMsg
          /\ book' = book]_vars

\* C6 as amended: the old value is looked up first; the phone error is reported
\* only when a phone equals the old value, else the old-phone error
C6_OldPhoneLookedUpFirst ==
    [][InvalidNewPhone(book, last') =>
          /\ last'.caught = "ValueError"
          /\ last'.ret = IF Count(PhonesOf(book, last'.args[1]), last'.args[2]) > 0
                         THEN PhoneErrMsg ELSE OldPhoneErrMsg
          /\ book' = book]_vars

C6_Witness ==
    /\ InvalidNewPhone(book, last)
    /\ last.ret = OldPhoneErrMsg
    /\ Len(PhonesOf(book, last.args[1])) = 2

\* C7: a raw string is accepted exactly when, separators aside, it holds only
\* digits, 10 or 12 of them; the value kept is those digits in order
C7_PhoneAcceptedIffTenOrTwelveDigits ==
    last.op = "Phone" =>
        LET value == last.args[1]
            digits == {i \in 1..Len(value) : value[i] \in Digits}
            others == {i \in 1..Len(value) : value[i] \notin Digits \cup Separators}
        IN  /\ last.escaped = "none" <=>
                (others = {} /\ Cardinality(digits) \in {10, 12})
            /\ last.escaped = "none" =>
                last.ret = SelectSeq(value, LAMBDA c : c \in Digits)
            /\ last.escaped # "none" =>
                (last.escaped = "ValueError" /\ last.ret = PhoneErrMsg)

C7_Witness ==
    /\ last.op = "Phone"
    /\ last.escaped = "none"
    /\ Len(last.ret) = 12
    /\ Len(last.args[1]) = 14
    /\ last.args[1][1] = "+"

KeysAreNames(data) ==
    /\ \A i \in 1..Len(data) : data[i].key = data[i].rec.name
    /\ \A i, j \in 1..Len(data) : data[i].key = data[j].key => i = j

\* C8: every key is the name of its record and no name is held twice; adding a
\* record under a name already held replaces that record whole; deleting a name
\* not held changes nothing and raises nothing
C8_KeysAreNamesAndAddReplaces ==
    [][/\ KeysAreNames(book')
       /\ (last'.op = "add_record" /\ KeyIndex(book, last'.args[1]) # 0) =>
             book' = [book EXCEPT ![KeyIndex(book, last'.args[1])] =
                        [key |-> last'.args[1],
                         rec |-> [name |-> last'.args[1],
                                  phones |-> <<Phone(last'.args[2]).value>>,
                                  email |-> last'.args[3],
                                  birthday |-> None]]]
       /\ (last'.op = "delete" /\ KeyIndex(book, last'.args[1]) = 0) =>
             (book' = book /\ last'.escaped = "none")]_vars

C8_Witness ==
    /\ last.op = "add_record"
    /\ Len(book) = 2
    /\ book[1].key = last.args[1]
    /\ book[1].rec.phones = <<CanonB>>
    /\ book[2].rec.birthday # None
    /\ Len(book[2].rec.phones) = 2

\* C9: load never raises: a missing or unreadable snapshot leaves an empty book,
\* a saved one is restored as it was saved
C9_LoadNeverRaises ==
    last.op = "load" =>
        /\ last.escaped = "none"
        /\ disk.kind # "pickle" => book = <<>>
        /\ disk.kind = "pickle" => Pickle(book) = disk

\* what load does restore and catch
LoadRestoresSavedBook ==
    (last.op = "load" /\ disk.kind \in {"pickle", "missing"}) =>
        /\ last.escaped = "none"
        /\ disk.kind = "missing" => book = <<>>
        /\ disk.kind = "pickle" => Pickle(book) = disk /\ KeysAreNames(book)

\* C10: an add, change or add-birthday command that fails leaves the book as it was
C10_FailedCommandChangesNothing ==
    [][(last'.op \in {"add", "change", "add-birthday"} /\ last'.caught # "none") =>
          book' = book]_vars

C10_Witness ==
    /\ last.op = "add"
    /\ last.caught = "ValueError"
    /\ last.ret = PhoneErrMsg
    /\ Len(last.args) = 3
    /\ KeyIndex(book, last.args[1]) # 0
    /\ book[KeyIndex(book, last.args[1])].rec.email = ""

====
